---------------------------- MODULE Spec2Model ----------------------------
(***************************************************************************)
(* Model of hfxget.py: the per-file download/verify/failover loop          *)
(* (HFDownloader.download_and_verify_file), the two download backends      *)
(* (RequestsDownloader, Aria2Downloader), the metadata based verifier      *)
(* (HFDownloader.verify_file_integrity) and the thread pool orchestrator   *)
(* (HFDownloader.download_repo) with the SIGINT flag `interrupted`.        *)
(***************************************************************************)
EXTENDS Integers, Sequences, FiniteSets, TLC

(***************************************************************************)
(* Bounds of the model.                                                    *)
(***************************************************************************)
\* Largest pool size (max_workers) a job is started with.
MaxWorkers == 2
\* Largest attempt budget (max_attempts) the tasks of a job are run with.
MaxAttempts == 2
\* Longest repository listing the filters are applied to.
MaxListing == 2
\* Longest list of include or of exclude patterns.
MaxPatterns == 2

(***************************************************************************)
(* Program constants.                                                      *)
(***************************************************************************)
\* download_and_verify_file(..., max_attempts=5): the default budget.
DefaultMaxAttempts == 5

\* Python's None.
None == "<None>"

\* HTTP statuses the code treats as permanent: {401, 403, 404}.
PermanentStatus == {401, 403, 404}

(***************************************************************************)
(* Files.  The content of a local file is one of three classes:            *)
(*   "full"  the bytes of the remote file,                                 *)
(*   "part"  a proper prefix of them (fewer bytes),                        *)
(*   "junk"  as many bytes as the remote file, but other bytes.            *)
(* "absent" says that the path does not exist.                             *)
(***************************************************************************)
Absent == "absent"
Content == {"full", "part", "junk"}

\* Path.stat().st_size
StatSize(c) == CASE c = "full" -> 2
                 [] c = "junk" -> 2
                 [] c = "part" -> 1

\* sha_fileobj(f).hex(): the SHA-256 of the content.
sha_fileobj(c) == CASE c = "full" -> "sha_full"
                    [] c = "junk" -> "sha_junk"
                    [] c = "part" -> "sha_part"

\* git_hash(f.read()): the git blob id of the content.
git_hash(c) == CASE c = "full" -> "git_full"
                 [] c = "junk" -> "git_junk"
                 [] c = "part" -> "git_part"

\* The file names of the manifest of a job, in manifest order.
FileNames == <<"a", "b">>
Paths == {FileNames[k] : k \in DOMAIN FileNames}

(***************************************************************************)
(* Manifest entries (file_info dictionaries built by get_repo_file_list).  *)
(* size and blob_id describe the remote ("full") content; size is {} when  *)
(* the listing gives None and {n} when it gives n; lfs is None for a       *)
(* regular file and the sha256 of the content for an LFS file.             *)
(***************************************************************************)
FileInfo(fn, isLfs, sizeKnown) ==
    [filename |-> fn,
     size     |-> IF sizeKnown THEN {StatSize("full")} ELSE {},
     lfs      |-> IF isLfs THEN sha_fileobj("full") ELSE None,
     blob_id  |-> IF isLfs THEN "blob_lfs_pointer" ELSE git_hash("full")]

FileInfos == {FileInfo(fn, l, s) : fn \in Paths, l \in BOOLEAN, s \in BOOLEAN}

VARIABLES
    \* ---- job configuration (fixed during a run)
    files_info,             \* the listing get_repo_file_list returned
    include_patterns,       \* << >> stands for None and for []: both are falsy
    exclude_patterns,
    files_to_download,      \* sequence of file_info: one task per entry
    downloader_type,        \* "requests" or "aria2"
    max_workers,            \* pool size
    max_attempts,           \* attempt budget of download_and_verify_file
    resolved_commit_hash,   \* HFDownloader.resolved_commit_hash
    \* ---- process wide flag
    interrupted,
    \* ---- local tree, per path
    final,                  \* local_dir / filename
    incomplete,             \* <filename>.incomplete (RequestsDownloader)
    control,                \* <filename>.aria2 (aria2 control file)
    metadata,               \* hf download metadata record or None
    \* ---- the controller of each task (locals of download_and_verify_file)
    pc,                     \* "queued", "top", "verify", "attempt", "fetching",
                            \* "done"; "cancelled": the future was cancelled
    attempt,
    url_type,
    download_success,
    performed_download,
    result,                 \* the returned dict (read when pc = "done")
    \* ---- observation of each task (history, not program state)
    fetches,                \* Backend fetches started by the task
    lateFetches,            \* of these, started while interrupted was set
    lastVerify,             \* its verification since its last fetch: "none","ok","fail"
    lastOutcome,            \* how its last fetch ended
    lastSource,             \* the source of its last fetch
    onlyTransient,          \* every fetch so far failed without a status code
    switches,               \* LFS -> HF switches of the task
    slept,                  \* the task slept (backoff) after its last fetch
    lastDenied,             \* the server answered its last fetch 401, 403 or 404
    iterations,             \* iterations of the loop the task has begun
    \* ---- the orchestrator (locals of download_repo)
    opc,                    \* "collect", "shutdown", "returned"
    collected,              \* futures whose result the loop has processed
    successful_downloads,
    failed_downloads,
    lfs_downloads,
    hf_downloads,
    verified_without_downloads,
    total_bytes_downloaded,
    counted_as,             \* history: the counter each collected task went to
    bytes_added,            \* history: the bytes each collected task added
    retval,                 \* what download_repo returned (read when opc = "returned")
    exit_code,              \* what main returned (read when opc = "exited")
    early_interrupt,        \* history: the flag was set while a task was unfinished
    queued_at_flag,         \* history: the tasks that were queued when the flag was set
    run                     \* 1: first invocation, 2: the invocation after it

cfgVars  == <<files_info, include_patterns, exclude_patterns, files_to_download,
              downloader_type, max_workers, max_attempts, resolved_commit_hash>>
fsVars   == <<final, incomplete, control, metadata>>
taskVars == <<pc, attempt, url_type, download_success, performed_download, result>>
obsVars  == <<fetches, lateFetches, lastVerify, lastOutcome, lastSource, onlyTransient,
              switches, slept, lastDenied, iterations>>
orchVars == <<opc, collected, successful_downloads, failed_downloads,
              lfs_downloads, hf_downloads, verified_without_downloads,
              total_bytes_downloaded, counted_as, bytes_added, retval,
              exit_code, early_interrupt, queued_at_flag>>
vars == <<cfgVars, interrupted, fsVars, taskVars, obsVars, orchVars, run>>

Tasks == DOMAIN files_to_download

\* local_path = local_dir / filename
LocalPath(t) == files_to_download[t].filename

(***************************************************************************)
(* MetadataStore and verifier.                                             *)
(***************************************************************************)
\* hf_read_download_metadata gives None when no record is stored.
NoMeta == [commit_hash |-> None, etag |-> None]

\* str(x) as hf_write_download_metadata formats the commit hash into the
\* record: f"{commit_hash}\n{etag}\n...".
PyStr(x) == IF x = None THEN "None" ELSE x

is_lfs_file(file_info) == file_info.lfs # None

\* _extract_expected_etag: the LFS sha256 when the entry is an LFS file,
\* the blob id otherwise.
extract_expected_etag(file_info) ==
    IF file_info.lfs # None THEN file_info.lfs ELSE file_info.blob_id

\* A refresh that stores the fingerprint of the manifest for an LFS entry
\* and hashes the file only when the entry is a regular file.
write_manifest_fingerprint(file_info, content, commit) ==
    [commit_hash |-> PyStr(commit),
     etag        |-> IF is_lfs_file(file_info) THEN file_info.lfs
                                               ELSE git_hash(content)]

\* _write_local_metadata: hash the local file (sha256 for an LFS entry,
\* git blob hash otherwise) and store it with the resolved commit hash.
\* Gives the record the store holds afterwards.
write_local_metadata(file_info, content, commit) ==
    [commit_hash |-> PyStr(commit),
     etag        |-> IF is_lfs_file(file_info) THEN sha_fileobj(content)
                                               ELSE git_hash(content)]

\* The record verify_file_integrity reads after its refresh steps.
MetaAfterRefresh(file_info, content, meta, force, commit) ==
    LET m1 == IF force THEN write_local_metadata(file_info, content, commit)
                       ELSE meta
    IN  IF m1 = NoMeta THEN write_local_metadata(file_info, content, commit)
                       ELSE m1

\* A verifier that compares the size only when no download was made.
VerifySkipsSizeWhenForced(file_info, content, meta, force, commit) ==
    IF content = Absent
    THEN [ok |-> FALSE, meta |-> meta]
    ELSE IF ~force /\ file_info.size # {} /\ StatSize(content) \notin file_info.size
    THEN [ok |-> FALSE, meta |-> meta]
    ELSE LET m == MetaAfterRefresh(file_info, content, meta, force, commit)
             expected_etag == extract_expected_etag(file_info)
         IN  IF m = NoMeta
             THEN [ok |-> FALSE, meta |-> m]
             ELSE IF expected_etag # None /\ m.etag # expected_etag
             THEN [ok |-> FALSE, meta |-> m]
             ELSE IF commit # None /\ m.commit_hash # None
                     /\ m.commit_hash # commit
             THEN [ok |-> FALSE, meta |-> m]
             ELSE [ok |-> TRUE, meta |-> m]

\* A verifier without the comparison of the commit hashes.
VerifySkipsCommit(file_info, content, meta, force, commit) ==
    IF content = Absent
    THEN [ok |-> FALSE, meta |-> meta]
    ELSE IF file_info.size # {} /\ StatSize(content) \notin file_info.size
    THEN [ok |-> FALSE, meta |-> meta]
    ELSE LET m == MetaAfterRefresh(file_info, content, meta, force, commit)
             expected_etag == extract_expected_etag(file_info)
         IN  IF m = NoMeta
             THEN [ok |-> FALSE, meta |-> m]
             ELSE IF expected_etag # None /\ m.etag # expected_etag
             THEN [ok |-> FALSE, meta |-> m]
             ELSE [ok |-> TRUE, meta |-> m]

\* The checks of verify_file_integrity: [ok |-> the returned bool,
\* meta |-> the record of the path afterwards].
VerifyChecks(file_info, content, meta, force, commit) ==
    IF content = Absent
    THEN [ok |-> FALSE, meta |-> meta]
    ELSE IF file_info.size # {} /\ StatSize(content) \notin file_info.size
    THEN [ok |-> FALSE, meta |-> meta]
    ELSE LET m == MetaAfterRefresh(file_info, content, meta, force, commit)
             expected_etag == extract_expected_etag(file_info)
         IN  IF m = NoMeta
             THEN [ok |-> FALSE, meta |-> m]
             ELSE IF expected_etag # None /\ m.etag # expected_etag
             THEN [ok |-> FALSE, meta |-> m]
             ELSE IF commit # None /\ m.commit_hash # None
                     /\ m.commit_hash # commit
             THEN [ok |-> FALSE, meta |-> m]
             ELSE [ok |-> TRUE, meta |-> m]

\* A verifier that takes a file it has just downloaded on trust: no record
\* is written and nothing is compared.
verify_trusting_download(file_info, content, meta, force, commit) ==
    IF force /\ content # Absent
    THEN [ok |-> TRUE, meta |-> meta]
    ELSE VerifyChecks(file_info, content, meta, force, commit)

\* HFDownloader.verify_file_integrity(local_dir, file_path, file_info,
\* force_regenerate_etag).
verify_file_integrity(file_info, content, meta, force, commit) ==
    VerifyChecks(file_info, content, meta, force, commit)

(***************************************************************************)
(* DownloadResult and the backends.  An outcome of one download_file call  *)
(* is the DownloadResult it returns (or the fact that it raised) together  *)
(* with the files it leaves behind.  status_code is {} for None.           *)
(***************************************************************************)
Outcome(ok, status, msg, exc, f, i, c) ==
    [success |-> ok, status_code |-> status, message |-> msg, raised |-> exc,
     final |-> f, incomplete |-> i, control |-> c]

\* What a completed transfer leaves at its destination: the remote bytes,
\* or other bytes when the server (or the resumed prefix) was wrong.
Transferred == {"full", "junk"}

\* The except branch of RequestsDownloader.download_file for a response
\* with status 401, 403 or 404: the sidecar is left in place.
RequestsDeniedKeepsSidecar(f, i, c) ==
    {Outcome(FALSE, {s}, "http", FALSE, f, i, c) : s \in PermanentStatus}

\* The except branch of RequestsDownloader.download_file for a response
\* with status 401, 403 or 404: temp_path.unlink(missing_ok=True) and a
\* result that carries the status.
RequestsDenied(f, i, c) ==
    {Outcome(FALSE, {s}, "http", FALSE, f, Absent, c) : s \in PermanentStatus}

\* The answer 416 (Range Not Satisfiable) to "Range: bytes=<size of the
\* sidecar>-": the sidecar holds at least as many bytes as the remote file.
\* A request without a Range header may be answered so by a broken server.
RangeNotSatisfiable(i) == i # "part"

\* download_file(url, local_path, resume=False): temp_path = local_path,
\* the body is streamed into the final path itself.
RequestsDownloadInPlace(f, i, c, intr) ==
    {Outcome(TRUE, {}, "", FALSE, f, i, c)}
    \cup {Outcome(FALSE, {s}, "http", FALSE, Absent, i, c) : s \in PermanentStatus}
    \cup {Outcome(FALSE, {}, "error", FALSE, f, i, c)}
    \cup {Outcome(FALSE, {}, "error", FALSE, "part", i, c)}
    \cup (IF intr THEN {Outcome(FALSE, {}, "interrupted", FALSE, "part", i, c)}
                  ELSE {})
    \cup {Outcome(TRUE, {}, "", FALSE, x, i, c) : x \in Transferred}

\* RequestsDownloader.download_file(url, local_path, resume=True) on a path
\* whose final file is f and whose ".incomplete" sidecar is i, with the
\* aria2 control file c untouched.  intr: the flag is set while the body
\* is read.
RequestsDownload(f, i, c, intr) ==
    LET had     == i # Absent            \* Range request, mode "ab"
        written == IF had THEN i ELSE "part"
    IN  \* 416: the sidecar is promoted; without a sidecar nothing is done
        (IF ~RangeNotSatisfiable(i) THEN {}
         ELSE {IF had THEN Outcome(TRUE, {}, "", FALSE, i, Absent, c)
                      ELSE Outcome(TRUE, {}, "", FALSE, f, i, c)})
        \* raise_for_status with 401/403/404: sidecar unlinked, status kept
        \cup RequestsDenied(f, i, c)
        \* any other exception before the body is opened
        \cup {Outcome(FALSE, {}, "error", FALSE, f, i, c)}
        \* an exception while the body is streamed into the sidecar
        \cup {Outcome(FALSE, {}, "error", FALSE, f, written, c)}
        \* the flag is seen before a chunk is written
        \cup (IF intr THEN {Outcome(FALSE, {}, "interrupted", FALSE, f, written, c)}
                      ELSE {})
        \* every chunk written: the sidecar replaces the final file
        \cup {Outcome(TRUE, {}, "", FALSE, x, Absent, c) : x \in Transferred}

\* aria2 error messages, as sequences of lexemes.
Aria2HttpError(code) ==
    <<"The", " ", "response", " ", "status", " ", "is", " ", "not", " ",
      "successful.", " ", "status", "=", code>>
Aria2ErrorMessages ==
    {Aria2HttpError("404"), Aria2HttpError("401"), Aria2HttpError("403"),
     Aria2HttpError("503"), <<"Timeout.">>}

\* The text of an error message (current_download.error_message).
MessageText(m) ==
    CASE m = Aria2HttpError("404") -> "The response status is not successful. status=404"
      [] m = Aria2HttpError("401") -> "The response status is not successful. status=401"
      [] m = Aria2HttpError("403") -> "The response status is not successful. status=403"
      [] m = Aria2HttpError("503") -> "The response status is not successful. status=503"
      [] OTHER -> "Timeout."

\* The messages aria2 gives when the server answered 401, 403 or 404.
Aria2DeniedTexts ==
    {MessageText(Aria2HttpError(code)) : code \in {"401", "403", "404"}}

\* One match attempt of http_error_pattern at lexeme k of message:
\*   re.compile(r"status(?:\\scode)?[:=]\s*(\\d{3})", re.IGNORECASE)
\* In the raw string, \\s and \\d are an escaped backslash followed by the
\* letters: the pattern asks for a literal "\scode" and a literal "\ddd".
\* Gives the lexeme matched by group 1, or None.
HttpErrorMatchAt(message, k) ==
    LET n  == Len(message)
        k1 == IF k + 1 <= n /\ message[k + 1] = "\\scode" THEN k + 2 ELSE k + 1
        k2 == IF k1 + 1 <= n /\ message[k1 + 1] = " " THEN k1 + 2 ELSE k1 + 1
    IN  IF message[k] \in {"status", "Status", "STATUS"}
           /\ k1 <= n /\ message[k1] \in {":", "="}
           /\ k2 <= n /\ message[k2] \in {"\\ddd", "\\DDD"}
        THEN message[k2]
        ELSE None

\* Aria2Downloader._parse_http_status: [status |-> {} or {n}, raised |->
\* whether int() raises on the matched group].
parse_http_status(message) ==
    LET hits == {k \in 1..Len(message) : HttpErrorMatchAt(message, k) # None}
    IN  IF message = << >> \/ hits = {}
        THEN [status |-> {}, raised |-> FALSE]
        ELSE \* int("\ddd") raises ValueError
             [status |-> {}, raised |-> TRUE]

\* Aria2Downloader.download_file(url, local_path, resume=True).  aria2
\* writes the payload to the final path itself and keeps the ".aria2"
\* control file beside it until the transfer is complete.
Aria2Download(f, i, c, intr) ==
    LET fresh_download == f # Absent /\ ~c
        f1    == IF fresh_download THEN Absent ELSE f      \* local_path.unlink()
        \* the files of a transfer that was started and did not complete
        begun == IF f1 = Absent THEN {<<Absent, FALSE>>, <<"part", TRUE>>}
                                ELSE {<<f1, TRUE>>}
    IN  \* local_path.unlink() raises OSError
        (IF fresh_download
            THEN {Outcome(FALSE, {}, "error", FALSE, f, i, c)} ELSE {})
        \* the daemon is gone: EnvironmentError is raised
        \cup {Outcome(FALSE, {}, "error", TRUE, f1, i, c)}
        \* add_uris raises
        \cup {Outcome(FALSE, {}, "error", FALSE, f1, i, c)}
        \* the flag is seen at the top of the polling loop
        \cup (IF intr THEN {Outcome(FALSE, {}, "interrupted", FALSE, b[1], i, b[2])
                              : b \in begun}
                      ELSE {})
        \* get_download raises, or status == "removed"
        \cup {Outcome(FALSE, {}, "error", FALSE, b[1], i, b[2]) : b \in begun}
        \* status == "error"
        \cup {Outcome(FALSE, parse_http_status(m).status, MessageText(m),
                      parse_http_status(m).raised, b[1], i, b[2])
                 : m \in Aria2ErrorMessages, b \in begun}
        \* status == "complete"
        \cup {Outcome(TRUE, {}, "", FALSE, x, i, FALSE) : x \in Transferred}

\* self.downloader.download_file(url, local_path)
download_file(kind, f, i, c, intr) ==
    IF kind = "requests" THEN RequestsDownload(f, i, c, intr)
                         ELSE Aria2Download(f, i, c, intr)

\* self.hf_api.hf_hub_download(..., local_dir=local_dir): the library
\* either places the file with its own metadata record and returns, or
\* raises; a raised error may carry a response with a status.
\* [ok, status (of e.response, {} when there is none), final, meta].
hf_hub_download(file_info, f, meta, commit) ==
    {[ok |-> TRUE, status |-> {}, final |-> x,
      meta |-> [commit_hash |-> PyStr(commit),
                etag |-> extract_expected_etag(file_info)]] : x \in Transferred}
    \cup {[ok |-> FALSE, status |-> {s}, final |-> f, meta |-> meta]
             : s \in PermanentStatus}
    \cup {[ok |-> FALSE, status |-> {}, final |-> f, meta |-> meta]}

(***************************************************************************)
(* Initial states: the job is configured, its tasks are submitted to the   *)
(* executor and none has started.                                          *)
(***************************************************************************)
\* Local trees a job may find at a path: an empty directory, a file that
\* an earlier run completed and recorded, the same with the record of an
\* older commit, a damaged file, what an interrupted requests or aria2
\* transfer leaves, and a sidecar that holds every byte (the transfer was
\* stopped before the rename).
Tree(f, i, c, m) == [final |-> f, incomplete |-> i, control |-> c, meta |-> m]
GoodMeta(file_info, commit) == write_local_metadata(file_info, "full", commit)
InitialTrees(file_info) ==
    {Tree(Absent, Absent, FALSE, NoMeta),
     Tree("full", Absent, FALSE, GoodMeta(file_info, "c1")),
     Tree("full", Absent, FALSE, GoodMeta(file_info, "c0")),
     Tree("junk", Absent, FALSE, NoMeta),
     Tree(Absent, "part", FALSE, NoMeta),
     Tree(Absent, "full", FALSE, NoMeta),
     Tree("part", Absent, TRUE, NoMeta)}

NoResult == [success |-> FALSE, downloaded |-> FALSE, url_type |-> "-"]

\* What the future of a task holds when download_and_verify_file raised:
\* the exception, which future.result() raises again in the result loop.
FutureException == [success |-> FALSE, downloaded |-> FALSE, url_type |-> "OSError"]

\* The state of the tasks and of the orchestrator when a job starts: the
\* locals of download_and_verify_file and of download_repo at their first
\* statement.
JobStart ==
    /\ interrupted = FALSE
    /\ pc = [t \in Tasks |-> "queued"]
    /\ attempt = [t \in Tasks |-> 0]
    /\ url_type = [t \in Tasks |->
                     IF is_lfs_file(files_to_download[t]) THEN "LFS" ELSE "HF"]
    /\ download_success = [t \in Tasks |-> FALSE]
    /\ performed_download = [t \in Tasks |-> FALSE]
    /\ result = [t \in Tasks |-> NoResult]
    /\ fetches = [t \in Tasks |-> 0]
    /\ lateFetches = [t \in Tasks |-> 0]
    /\ lastVerify = [t \in Tasks |-> "none"]
    /\ lastOutcome = [t \in Tasks |-> "none"]
    /\ lastSource = [t \in Tasks |-> "-"]
    /\ onlyTransient = [t \in Tasks |-> TRUE]
    /\ switches = [t \in Tasks |-> 0]
    /\ slept = [t \in Tasks |-> FALSE]
    /\ lastDenied = [t \in Tasks |-> FALSE]
    /\ iterations = [t \in Tasks |-> 0]
    /\ opc = "collect"
    /\ collected = {}
    /\ successful_downloads = 0
    /\ failed_downloads = 0
    /\ lfs_downloads = 0
    /\ hf_downloads = 0
    /\ verified_without_downloads = 0
    /\ total_bytes_downloaded = 0
    /\ counted_as = [t \in Tasks |-> "-"]
    /\ bytes_added = [t \in Tasks |-> 0]
    /\ retval = FALSE
    /\ exit_code = 0
    /\ early_interrupt = FALSE
    /\ queued_at_flag = {}

\* The same state, entered by a step.
JobRestart ==
    /\ interrupted' = FALSE
    /\ pc' = [t \in Tasks |-> "queued"]
    /\ attempt' = [t \in Tasks |-> 0]
    /\ url_type' = [t \in Tasks |->
                     IF is_lfs_file(files_to_download[t]) THEN "LFS" ELSE "HF"]
    /\ download_success' = [t \in Tasks |-> FALSE]
    /\ performed_download' = [t \in Tasks |-> FALSE]
    /\ result' = [t \in Tasks |-> NoResult]
    /\ fetches' = [t \in Tasks |-> 0]
    /\ lateFetches' = [t \in Tasks |-> 0]
    /\ lastVerify' = [t \in Tasks |-> "none"]
    /\ lastOutcome' = [t \in Tasks |-> "none"]
    /\ lastSource' = [t \in Tasks |-> "-"]
    /\ onlyTransient' = [t \in Tasks |-> TRUE]
    /\ switches' = [t \in Tasks |-> 0]
    /\ slept' = [t \in Tasks |-> FALSE]
    /\ lastDenied' = [t \in Tasks |-> FALSE]
    /\ iterations' = [t \in Tasks |-> 0]
    /\ opc' = "collect"
    /\ collected' = {}
    /\ successful_downloads' = 0
    /\ failed_downloads' = 0
    /\ lfs_downloads' = 0
    /\ hf_downloads' = 0
    /\ verified_without_downloads' = 0
    /\ total_bytes_downloaded' = 0
    /\ counted_as' = [t \in Tasks |-> "-"]
    /\ bytes_added' = [t \in Tasks |-> 0]
    /\ retval' = FALSE
    /\ exit_code' = 0
    /\ early_interrupt' = FALSE
    /\ queued_at_flag' = {}

\* The manifest whose entry k is named names[k], is an LFS file iff
\* lfs[k], and has a known size iff sized[k].
Manifest(names, lfs, sized) ==
    [k \in DOMAIN names |-> FileInfo(names[k], lfs[k], sized[k])]

AllInitialTrees == UNION {InitialTrees(fi) : fi \in FileInfos}

\* trees[file_info]: the trees the job may find at the entry's path;
\* budgets: the values of max_attempts; pools: the values of max_workers;
\* commits: the values of resolved_commit_hash.
InitWith(manifests, budgets, pools, commits, trees) ==
    /\ files_to_download \in manifests
    /\ files_info = files_to_download
    /\ include_patterns = << >>
    /\ exclude_patterns = << >>
    /\ max_attempts \in budgets
    /\ downloader_type \in {"requests", "aria2"}
    /\ max_workers \in pools
    /\ resolved_commit_hash \in commits
    /\ run = 1
    /\ \E tr \in [Paths -> AllInitialTrees] :
          /\ \A p \in Paths :
                IF \E t \in Tasks : LocalPath(t) = p
                THEN \E t \in Tasks : LocalPath(t) = p
                                      /\ tr[p] \in trees[files_to_download[t]]
                ELSE tr[p] = Tree(Absent, Absent, FALSE, NoMeta)
          /\ final = [p \in Paths |-> tr[p].final]
          /\ incomplete = [p \in Paths |-> tr[p].incomplete]
          /\ control = [p \in Paths |-> tr[p].control]
          /\ metadata = [p \in Paths |-> tr[p].meta]
    /\ JobStart

(***************************************************************************)
(* The controller: download_and_verify_file, one loop iteration in four    *)
(* steps (top of the loop, verification, attempt check, fetch).            *)
(***************************************************************************)
\* A return that reports the source the task was submitted with.
ReturnSubmittedSource(t, ok, downloaded, source) ==
    /\ pc' = [pc EXCEPT ![t] = "done"]
    /\ result' = [result EXCEPT ![t] =
                    [success |-> ok, downloaded |-> downloaded,
                     url_type |-> IF is_lfs_file(files_to_download[t])
                                  THEN "LFS" ELSE "HF"]]

\* return {"success": ok, "downloaded": downloaded, "url_type": source}
Return(t, ok, downloaded, source) ==
    /\ pc' = [pc EXCEPT ![t] = "done"]
    /\ result' = [result EXCEPT ![t] =
                    [success |-> ok, downloaded |-> downloaded, url_type |-> source]]

\* A worker of the ThreadPoolExecutor takes the oldest queued task.
Running == {t \in Tasks : pc[t] \in {"top", "verify", "attempt", "fetching"}}
\* A pool that starts a thread for every submitted task.
WorkerAlwaysFree == TRUE
\* ThreadPoolExecutor(max_workers=max_workers): a queued task starts only
\* while fewer than max_workers tasks run.
WorkerFree == Cardinality(Running) < max_workers
TaskStart(t) ==
    /\ pc[t] = "queued"
    /\ \A u \in Tasks : pc[u] = "queued" => t <= u
    /\ WorkerFree
    /\ pc' = [pc EXCEPT ![t] = "top"]
    /\ UNCHANGED <<cfgVars, interrupted, fsVars, attempt, url_type,
                   download_success, performed_download, result, obsVars,
                   orchVars, run>>

\* A loop that never looks at the flag.
NeverSeesInterrupt == FALSE

\* What the loop reads of the flag at its top.
SeesInterrupt == interrupted

\* A loop that looks at the flag only before a retry, not before its first
\* verification.
LoopTopOnlyBeforeRetry(t) ==
    /\ pc[t] = "top"
    /\ IF SeesInterrupt /\ attempt[t] > 0
       THEN Return(t, FALSE, FALSE, url_type[t])
       ELSE pc' = [pc EXCEPT ![t] = "verify"] /\ UNCHANGED result
    /\ iterations' = [iterations EXCEPT ![t] = @ + 1]
    /\ UNCHANGED <<cfgVars, interrupted, fsVars, attempt, url_type,
                   download_success, performed_download, fetches, lateFetches,
                   lastVerify, lastOutcome, lastSource, onlyTransient,
                   switches, slept, lastDenied, orchVars, run>>

\* while True: if interrupted: return {...}
LoopTop(t) ==
    /\ pc[t] = "top"
    /\ IF SeesInterrupt
       THEN Return(t, FALSE, FALSE, url_type[t])
       ELSE pc' = [pc EXCEPT ![t] = "verify"] /\ UNCHANGED result
    /\ iterations' = [iterations EXCEPT ![t] = @ + 1]
    /\ UNCHANGED <<cfgVars, interrupted, fsVars, attempt, url_type,
                   download_success, performed_download, fetches, lateFetches,
                   lastVerify, lastOutcome, lastSource, onlyTransient,
                   switches, slept, lastDenied, orchVars, run>>

\* if self.verify_file_integrity(..., force_regenerate_etag=performed_download)
Verify(t) ==
    LET p == LocalPath(t)
        v == verify_file_integrity(files_to_download[t], final[p], metadata[p],
                                   performed_download[t], resolved_commit_hash)
    IN  /\ pc[t] = "verify"
        /\ metadata' = [metadata EXCEPT ![p] = v.meta]
        /\ lastVerify' = [lastVerify EXCEPT ![t] = IF v.ok THEN "ok" ELSE "fail"]
        /\ IF v.ok
           THEN Return(t, TRUE, performed_download[t], url_type[t])
           ELSE pc' = [pc EXCEPT ![t] = "attempt"] /\ UNCHANGED result
        /\ UNCHANGED <<cfgVars, interrupted, final, incomplete, control, attempt,
                       url_type, download_success, performed_download, fetches,
                       lateFetches, lastOutcome, lastSource, onlyTransient,
                       switches, slept, lastDenied, iterations,
                   orchVars, run>>

\* verify_file_integrity raises OSError: file_path.stat() fails when the
\* size is compared, or open() fails in _write_local_metadata when the
\* record is refreshed.  Nothing in download_and_verify_file catches it:
\* the call of the task ends with the exception.
VerifyRaises(t) ==
    LET p == LocalPath(t)
        file_info == files_to_download[t]
    IN  /\ pc[t] = "verify"
        /\ final[p] # Absent
        /\ \/ file_info.size # {}
           \/ performed_download[t] \/ metadata[p] = NoMeta
        /\ pc' = [pc EXCEPT ![t] = "done"]
        /\ result' = [result EXCEPT ![t] = FutureException]
        /\ lastVerify' = [lastVerify EXCEPT ![t] = "raised"]
        /\ UNCHANGED <<cfgVars, interrupted, fsVars, attempt, url_type,
                       download_success, performed_download, fetches,
                       lateFetches, lastOutcome, lastSource, onlyTransient,
                       switches, slept, lastDenied, iterations,
                   orchVars, run>>

\* The attempt check with > in place of >=.
BudgetSpentOffByOne(t) == attempt[t] > max_attempts

\* if attempt >= max_attempts: return failure
BudgetSpent(t) == attempt[t] >= max_attempts

\* An attempt check after which attempt is not incremented.
NeedsFetchForgetsCount(t) ==
    /\ pc[t] = "attempt"
    /\ IF BudgetSpent(t)  
       THEN /\ Return(t, FALSE, FALSE, url_type[t])
            /\ UNCHANGED <<attempt, fetches, lateFetches>>
       ELSE /\ attempt' = attempt
            /\ pc' = [pc EXCEPT ![t] = "fetching"]
            /\ fetches' = [fetches EXCEPT ![t] = @ + 1]
            /\ lateFetches' = [lateFetches EXCEPT ![t] =
                                 IF interrupted THEN @ + 1 ELSE @]
            /\ UNCHANGED result
    /\ UNCHANGED <<cfgVars, interrupted, fsVars, url_type, download_success,
                   performed_download, lastVerify, lastOutcome, lastSource,
                   onlyTransient, switches, slept, lastDenied, iterations,
                   orchVars, run>>

\* The attempt check, attempt += 1, and the call of the backend for the
\* current source.
NeedsFetch(t) ==
    /\ pc[t] = "attempt"
    /\ IF BudgetSpent(t)  
       THEN /\ Return(t, FALSE, FALSE, url_type[t])
            /\ UNCHANGED <<attempt, fetches, lateFetches>>
       ELSE /\ attempt' = [attempt EXCEPT ![t] = @ + 1]
            /\ pc' = [pc EXCEPT ![t] = "fetching"]
            /\ fetches' = [fetches EXCEPT ![t] = @ + 1]
            /\ lateFetches' = [lateFetches EXCEPT ![t] =
                                 IF interrupted THEN @ + 1 ELSE @]
            /\ UNCHANGED result
    /\ UNCHANGED <<cfgVars, interrupted, fsVars, url_type, download_success,
                   performed_download, lastVerify, lastOutcome, lastSource,
                   onlyTransient, switches, slept, lastDenied, iterations,
                   orchVars, run>>

\* if status_code in {401, 403, 404}: switch to HF
SwitchesSource(o) == ~o.raised /\ ~o.success /\ o.status_code \cap PermanentStatus # {}

\* An end of iteration that gives up one attempt early.
EndOfIterationGivesUpEarly(t, succ, final_source) ==
    IF ~succ
    THEN IF attempt[t] < max_attempts - 1
         THEN /\ pc' = [pc EXCEPT ![t] = "top"]
              /\ slept' = [slept EXCEPT ![t] = TRUE]
              /\ UNCHANGED result
         ELSE /\ Return(t, FALSE, TRUE, final_source)
              /\ slept' = [slept EXCEPT ![t] = FALSE]
    ELSE /\ pc' = [pc EXCEPT ![t] = "top"]
         /\ slept' = [slept EXCEPT ![t] = FALSE]
         /\ UNCHANGED result

\* An end of iteration that reports a download that returned success as
\* complete without verifying it again.
EndOfIterationTrustsDownload(t, succ, final_source) ==
    IF ~succ
    THEN IF attempt[t] < max_attempts
         THEN /\ pc' = [pc EXCEPT ![t] = "top"]
              /\ slept' = [slept EXCEPT ![t] = TRUE]
              /\ UNCHANGED result
         ELSE /\ Return(t, FALSE, TRUE, final_source)
              /\ slept' = [slept EXCEPT ![t] = FALSE]
    ELSE /\ Return(t, TRUE, TRUE, final_source)
         /\ slept' = [slept EXCEPT ![t] = FALSE]

\* The end of an iteration that has not returned:
\*   if not download_success: sleep and continue while attempts are left,
\*   else return failure; if download_success: continue.
EndOfIteration(t, succ, final_source) ==
    IF ~succ
    THEN IF attempt[t] < max_attempts
         THEN /\ pc' = [pc EXCEPT ![t] = "top"]
              /\ slept' = [slept EXCEPT ![t] = TRUE]
              /\ UNCHANGED result
         ELSE /\ Return(t, FALSE, TRUE, final_source)
              /\ slept' = [slept EXCEPT ![t] = FALSE]
    ELSE /\ pc' = [pc EXCEPT ![t] = "top"]
         /\ slept' = [slept EXCEPT ![t] = FALSE]
         /\ UNCHANGED result

OutcomeKind(ok, status, msg, exc) ==
    IF exc THEN "raised"
    ELSE IF ok THEN "ok"
    ELSE IF status \cap PermanentStatus # {} THEN "perm"
    ELSE IF msg = "interrupted" THEN "interrupted"
    ELSE "transient"

Observe(t, kind) ==
    /\ lastOutcome' = [lastOutcome EXCEPT ![t] = kind]
    /\ lastSource' = [lastSource EXCEPT ![t] = url_type[t]]
    /\ onlyTransient' = [onlyTransient EXCEPT ![t] =
                           @ /\ kind \in {"transient", "raised"}]
    /\ lastVerify' = [lastVerify EXCEPT ![t] = "none"]

\* The server answered the fetch with 401, 403 or 404: the status of
\* e.response in RequestsDownloader, the status in aria2's error message.
ServerDenied(kind, o) ==
    IF kind = "requests" THEN o.status_code \cap PermanentStatus # {}
                         ELSE o.message \in Aria2DeniedTexts

\* The LFS branch: download_file returns (or raises) and the rest of the
\* iteration runs.
FetchReturnLFS(t) ==
    LET p == LocalPath(t) IN
    /\ pc[t] = "fetching"
    /\ url_type[t] = "LFS"
    /\ \E o \in download_file(downloader_type, final[p], incomplete[p],
                              control[p], interrupted) :
          LET succ == download_success[t] \/ (~o.raised /\ o.success)
              sw   == SwitchesSource(o)
          IN  /\ performed_download' = [performed_download EXCEPT ![t] = TRUE]
              /\ download_success' = [download_success EXCEPT ![t] = succ]
              /\ final' = [final EXCEPT ![p] = IF sw THEN Absent ELSE o.final]
              /\ incomplete' = [incomplete EXCEPT ![p] = o.incomplete]
              /\ control' = [control EXCEPT ![p] = IF sw THEN FALSE ELSE o.control]
              /\ url_type' = [url_type EXCEPT ![t] = IF sw THEN "HF" ELSE @]
              /\ switches' = [switches EXCEPT ![t] = IF sw THEN @ + 1 ELSE @]
              /\ Observe(t, OutcomeKind(o.success, o.status_code, o.message, o.raised))
              /\ lastDenied' = [lastDenied EXCEPT ![t] = ServerDenied(downloader_type, o)]
              /\ EndOfIteration(t, succ, "LFS")
    /\ UNCHANGED <<cfgVars, interrupted, metadata, attempt, fetches, lateFetches,
                   iterations, orchVars, run>>

\* An except branch that retries whatever the response says.
HFDeniedNever(o) == FALSE

\* The except branch of the HF call: a response with 401/403/404 returns
\* failure at once.
HFDenied(o) == ~o.ok /\ o.status \cap PermanentStatus # {}

\* The HF branch: hf_hub_download returns or raises.
FetchReturnHF(t) ==
    LET p == LocalPath(t) IN
    /\ pc[t] = "fetching"
    /\ url_type[t] = "HF"
    /\ \E o \in hf_hub_download(files_to_download[t], final[p], metadata[p],
                                resolved_commit_hash) :
          LET succ == download_success[t] \/ o.ok
          IN  /\ performed_download' = [performed_download EXCEPT ![t] = TRUE]
              /\ download_success' = [download_success EXCEPT ![t] = succ]
              /\ final' = [final EXCEPT ![p] = o.final]
              /\ metadata' = [metadata EXCEPT ![p] = o.meta]
              /\ Observe(t, OutcomeKind(o.ok, o.status, "", FALSE))
              /\ lastDenied' = [lastDenied EXCEPT ![t] = o.status \cap PermanentStatus # {}]
              /\ IF HFDenied(o)
                 THEN /\ Return(t, FALSE, TRUE, "HF")
                      /\ slept' = [slept EXCEPT ![t] = FALSE]
                 ELSE EndOfIteration(t, succ, "HF")
    /\ UNCHANGED <<cfgVars, interrupted, incomplete, control, attempt, url_type,
                   fetches, lateFetches, switches, iterations, orchVars, run>>

(***************************************************************************)
(* The SIGINT handler.                                                     *)
(***************************************************************************)
signal_handler ==
    /\ opc # "exited"
    /\ ~interrupted
    /\ interrupted' = TRUE
    /\ early_interrupt' = \E t \in Tasks : pc[t] \notin {"done", "cancelled"}
    /\ queued_at_flag' = {t \in Tasks : pc[t] = "queued"}
    /\ UNCHANGED <<cfgVars, fsVars, taskVars, obsVars, opc, collected,
                   successful_downloads, failed_downloads, lfs_downloads,
                   hf_downloads, verified_without_downloads,
                   total_bytes_downloaded, counted_as, bytes_added, retval,
                   exit_code, run>>

(***************************************************************************)
(* The orchestrator: the result loop of download_repo.                     *)
(***************************************************************************)
\* The futures as_completed can yield next.
Completed == {t \in Tasks : pc[t] \in {"done", "cancelled"}}

\* A result loop that never looks at the flag.
LoopNeverSeesInterrupt == FALSE

\* What the loop reads of the flag before it handles a future.
LoopSeesInterrupt == interrupted

\* A count of the successes by source alone, as the branch for results
\* that are not dicts makes it.
CountResultBySourceOnly(r) ==
    /\ successful_downloads' = successful_downloads + (IF r.success THEN 1 ELSE 0)
    /\ failed_downloads' = failed_downloads + (IF r.success THEN 0 ELSE 1)
    /\ lfs_downloads' = lfs_downloads +
          (IF r.success /\ r.url_type = "LFS" THEN 1 ELSE 0)
    /\ hf_downloads' = hf_downloads +
          (IF r.success /\ r.url_type # "LFS" THEN 1 ELSE 0)
    /\ verified_without_downloads' = verified_without_downloads

\* A result loop whose except branch only prints.
CountResultLosesException(r) ==
    IF r = FutureException
    THEN UNCHANGED <<successful_downloads, failed_downloads, lfs_downloads,
                     hf_downloads, verified_without_downloads>>
    ELSE /\ successful_downloads' = successful_downloads + (IF r.success THEN 1 ELSE 0)
         /\ failed_downloads' = failed_downloads + (IF r.success THEN 0 ELSE 1)
         /\ lfs_downloads' = lfs_downloads +
               (IF r.success /\ r.downloaded /\ r.url_type = "LFS" THEN 1 ELSE 0)
         /\ hf_downloads' = hf_downloads +
               (IF r.success /\ r.downloaded /\ r.url_type # "LFS" THEN 1 ELSE 0)
         /\ verified_without_downloads' = verified_without_downloads +
               (IF r.success /\ ~r.downloaded THEN 1 ELSE 0)

\* The counters after the future whose outcome is r is handled:
\* future.result() raises and the except branch counts a failure, or the
\* result dict r is counted.
CountResult(r) ==
    IF r = FutureException
    THEN /\ failed_downloads' = failed_downloads + 1
         /\ UNCHANGED <<successful_downloads, lfs_downloads, hf_downloads,
                        verified_without_downloads>>
    ELSE /\ successful_downloads' = successful_downloads + (IF r.success THEN 1 ELSE 0)
         /\ failed_downloads' = failed_downloads + (IF r.success THEN 0 ELSE 1)
         /\ lfs_downloads' = lfs_downloads +
               (IF r.success /\ r.downloaded /\ r.url_type = "LFS" THEN 1 ELSE 0)
         /\ hf_downloads' = hf_downloads +
               (IF r.success /\ r.downloaded /\ r.url_type # "LFS" THEN 1 ELSE 0)
         /\ verified_without_downloads' = verified_without_downloads +
               (IF r.success /\ ~r.downloaded THEN 1 ELSE 0)

\* total_bytes_downloaded += local_path.stat().st_size, for a dict with
\* success and downloaded whose file exists.
BytesOf(r, content) ==
    IF r.success /\ r.downloaded /\ content # Absent THEN StatSize(content) ELSE 0

\* One iteration of "for future in as_completed(future_to_task)": with the
\* flag set, every future is cancelled (a queued one becomes cancelled, a
\* running or finished one is left alone) and the loop is left; otherwise
\* the result of the future is counted.
Collect(t) ==
    /\ opc = "collect"
    /\ t \in Completed \ collected
    /\ IF LoopSeesInterrupt
       THEN /\ pc' = [u \in Tasks |-> IF pc[u] = "queued" THEN "cancelled" ELSE pc[u]]
            /\ opc' = "shutdown"
            /\ UNCHANGED <<collected, successful_downloads, failed_downloads,
                           lfs_downloads, hf_downloads, verified_without_downloads,
                           total_bytes_downloaded, counted_as, bytes_added>>
       ELSE /\ CountResult(result[t])
            /\ total_bytes_downloaded' =
                  total_bytes_downloaded + BytesOf(result[t], final[LocalPath(t)])
            /\ bytes_added' = [bytes_added EXCEPT ![t] =
                                 total_bytes_downloaded' - total_bytes_downloaded]
            /\ counted_as' = [counted_as EXCEPT ![t] =
                  IF failed_downloads' > failed_downloads THEN "failed"
                  ELSE IF verified_without_downloads' > verified_without_downloads
                       THEN "verified"
                  ELSE IF lfs_downloads' > lfs_downloads THEN "lfs"
                  ELSE IF hf_downloads' > hf_downloads THEN "hf"
                  ELSE "-"]
            /\ collected' = collected \cup {t}
            /\ opc' = IF collected' = Tasks THEN "shutdown" ELSE "collect"
            /\ UNCHANGED pc
    /\ UNCHANGED <<cfgVars, interrupted, fsVars, attempt, url_type,
                   download_success, performed_download, result, obsVars,
                   retval, exit_code, early_interrupt,
                   queued_at_flag, run>>

\* One iteration of the result loop in which local_path.exists() or
\* local_path.stat() raises OSError: the result is a dict with success and
\* downloaded, successful_downloads and the counter of the source have been
\* incremented, and the except branch counts a failure.
CollectStatRaises(t) ==
    /\ opc = "collect"
    /\ t \in Completed \ collected
    /\ ~LoopSeesInterrupt
    /\ result[t].success /\ result[t].downloaded
    /\ successful_downloads' = successful_downloads + 1
    /\ lfs_downloads' = lfs_downloads + (IF result[t].url_type = "LFS" THEN 1 ELSE 0)
    /\ hf_downloads' = hf_downloads + (IF result[t].url_type # "LFS" THEN 1 ELSE 0)
    /\ failed_downloads' = failed_downloads + 1
    /\ counted_as' = [counted_as EXCEPT ![t] = "failed"]
    /\ collected' = collected \cup {t}
    /\ opc' = IF collected' = Tasks THEN "shutdown" ELSE "collect"
    /\ UNCHANGED <<cfgVars, interrupted, fsVars, taskVars, obsVars,
                   verified_without_downloads, total_bytes_downloaded,
                   bytes_added, retval, exit_code, early_interrupt,
                   queued_at_flag, run>>

\* return failed_downloads == 0
ReturnValue == failed_downloads = 0

\* An executor that is shut down with wait=False: download_repo goes on
\* while tasks still run.
ShutdownWithoutWaiting ==
    /\ opc = "shutdown"
    /\ opc' = "returned"
    /\ retval' = ReturnValue
    /\ UNCHANGED <<cfgVars, interrupted, fsVars, taskVars, obsVars, collected,
                   successful_downloads, failed_downloads, lfs_downloads,
                   hf_downloads, verified_without_downloads,
                   total_bytes_downloaded, counted_as, bytes_added,
                   exit_code, early_interrupt,
                   queued_at_flag, run>>

\* The executor's __exit__ waits for every task that is running or still
\* queued; then the statistics are printed and download_repo returns.
Shutdown ==
    /\ opc = "shutdown"
    /\ \A t \in Tasks : pc[t] \in {"done", "cancelled"}
    /\ opc' = "returned"
    /\ retval' = ReturnValue
    /\ UNCHANGED <<cfgVars, interrupted, fsVars, taskVars, obsVars, collected,
                   successful_downloads, failed_downloads, lfs_downloads,
                   hf_downloads, verified_without_downloads,
                   total_bytes_downloaded, counted_as, bytes_added,
                   exit_code, early_interrupt,
                   queued_at_flag, run>>

\* A main that reports the value of download_repo alone.
ExitCodeIgnoringInterrupt == IF retval THEN 0 ELSE 1

\* main after download_repo: 130 if interrupted, else 0 if success else 1.
ExitCode == IF interrupted THEN 130 ELSE IF retval THEN 0 ELSE 1

\* main reads the flag and returns its exit status.
MainReturn ==
    /\ opc = "returned"
    /\ opc' = "exited"
    /\ exit_code' = ExitCode
    /\ UNCHANGED <<cfgVars, interrupted, fsVars, taskVars, obsVars, collected,
                   successful_downloads, failed_downloads, lfs_downloads,
                   hf_downloads, verified_without_downloads,
                   total_bytes_downloaded, counted_as, bytes_added, retval,
                   early_interrupt,
                   queued_at_flag, run>>

\* Every task of the run returned success.
AllComplete == \A t \in Tasks : pc[t] = "done" /\ result[t].success

\* The program is run again with the same arguments on the tree and the
\* metadata store the first run left, after a first run in which every
\* task was Complete.
SecondRun ==
    /\ opc = "exited"
    /\ run = 1
    /\ AllComplete
    /\ run' = 2
    /\ UNCHANGED <<cfgVars, fsVars>>
    /\ JobRestart

Next ==
    \/ \E t \in Tasks : TaskStart(t)
    \/ \E t \in Tasks : LoopTop(t)
    \/ \E t \in Tasks : Verify(t)
    \/ \E t \in Tasks : NeedsFetch(t)
    \/ \E t \in Tasks : FetchReturnLFS(t)
    \/ \E t \in Tasks : FetchReturnHF(t)
    \/ \E t \in Tasks : Collect(t)
    \/ Shutdown
    \/ MainReturn
    \/ signal_handler
    \/ SecondRun

\* A job started in an empty directory with a manifest of one LFS file and
\* one regular file at distinct paths, the sizes known (the listing is
\* asked for with files_metadata=True).
FreshTrees == [file_info \in FileInfos |-> {Tree(Absent, Absent, FALSE, NoMeta)}]
MixedManifest == Manifest(FileNames, <<TRUE, FALSE>>, <<TRUE, TRUE>>)
Init == InitWith({MixedManifest}, {MaxAttempts}, {1, MaxWorkers}, {"c1"}, FreshTrees)

Spec == Init /\ [][Next]_vars

\* One task, LFS or regular, of known or unknown size, run with the
\* default budget or a smaller one, over every tree it may find, with or
\* without a resolved commit hash.
InitTask ==
    InitWith({Manifest(<<FileNames[1]>>, <<l>>, <<z>>) : l, z \in BOOLEAN},
             (1..MaxAttempts) \cup {DefaultMaxAttempts}, {1}, {"c1", None},
             [file_info \in FileInfos |-> InitialTrees(file_info)])

SpecTask == InitTask /\ [][Next]_vars

\* The same, the thread of a started task being scheduled again and again
\* and every call it makes (verification, Backend fetch, sleep) returning.
ControllerStep ==
    \E t \in Tasks : \/ LoopTop(t)
                     \/ Verify(t)
                     \/ NeedsFetch(t)
                     \/ FetchReturnLFS(t)
                     \/ FetchReturnHF(t)
SpecTaskFair == InitTask /\ [][Next]_vars /\ WF_vars(ControllerStep)

\* A job whose manifest may hold two entries of the same local path (a
\* listing that repeats a name, or two names the filesystem of local_dir
\* does not tell apart).
RepeatedManifest ==
    Manifest(<<FileNames[1], FileNames[1]>>, <<TRUE, TRUE>>, <<TRUE, TRUE>>)
InitDup == InitWith({MixedManifest, RepeatedManifest}, {MaxAttempts},
                    {1, MaxWorkers}, {"c1"}, FreshTrees)

SpecDup == InitDup /\ [][Next]_vars

\* The same job on a local directory whose files may fail to be read: at
\* each path nothing, or the file an earlier run completed and recorded.
InitFault ==
    InitWith({MixedManifest}, {MaxAttempts}, {1, MaxWorkers}, {"c1"},
             [file_info \in FileInfos |->
                 {Tree(Absent, Absent, FALSE, NoMeta),
                  Tree("full", Absent, FALSE, GoodMeta(file_info, "c1"))}])

NextFault ==
    \/ Next
    \/ \E t \in Tasks : VerifyRaises(t)
    \/ \E t \in Tasks : CollectStatRaises(t)

SpecFault == InitFault /\ [][NextFault]_vars

(***************************************************************************)
(* The filters of download_repo and the task list it builds.               *)
(***************************************************************************)
\* The characters of the file names and of the patterns of the model.
Spell(text) == CASE text = ""   -> << >>
                 [] text = "a"  -> <<"a">>
                 [] text = "b"  -> <<"b">>
                 [] text = "ab" -> <<"a", "b">>
FilterNames == {"a", "b", "ab"}
FilterPatterns == {"", "b", "ab"}

\* Python's `pattern in filename` for strings: pattern is a substring.
PyIn(pattern, filename) ==
    LET f == Spell(filename)
        q == Spell(pattern)
    IN  \E i \in 1..(Len(f) - Len(q) + 1) : SubSeq(f, i, i + Len(q) - 1) = q

\* An include filter that asks for every pattern.
IncludeKeepsIfAll(patterns, filename) ==
    \A k \in DOMAIN patterns : PyIn(patterns[k], filename)

\* any(pattern in f["filename"] for pattern in include_patterns)
IncludeKeeps(patterns, filename) ==
    \E k \in DOMAIN patterns : PyIn(patterns[k], filename)

\* any(pattern in f["filename"] for pattern in exclude_patterns)
ExcludeDrops(patterns, filename) ==
    \E k \in DOMAIN patterns : PyIn(patterns[k], filename)

\* The two list comprehensions, the include one first.
FilterFiles(listing, inc, exc) ==
    LET kept == IF inc # << >>
                THEN SelectSeq(listing, LAMBDA f : IncludeKeeps(inc, f.filename))
                ELSE listing
    IN  IF exc # << >>
        THEN SelectSeq(kept, LAMBDA f : ~ExcludeDrops(exc, f.filename))
        ELSE kept

\* The locals of the controllers and of the result loop when the tasks of
\* the list todo are submitted.
Submitted(todo) ==
    /\ pc' = [t \in DOMAIN todo |-> "queued"]
    /\ attempt' = [t \in DOMAIN todo |-> 0]
    /\ url_type' = [t \in DOMAIN todo |-> IF is_lfs_file(todo[t]) THEN "LFS" ELSE "HF"]
    /\ download_success' = [t \in DOMAIN todo |-> FALSE]
    /\ performed_download' = [t \in DOMAIN todo |-> FALSE]
    /\ result' = [t \in DOMAIN todo |-> NoResult]
    /\ fetches' = [t \in DOMAIN todo |-> 0]
    /\ lateFetches' = [t \in DOMAIN todo |-> 0]
    /\ lastVerify' = [t \in DOMAIN todo |-> "none"]
    /\ lastOutcome' = [t \in DOMAIN todo |-> "none"]
    /\ lastSource' = [t \in DOMAIN todo |-> "-"]
    /\ onlyTransient' = [t \in DOMAIN todo |-> TRUE]
    /\ switches' = [t \in DOMAIN todo |-> 0]
    /\ slept' = [t \in DOMAIN todo |-> FALSE]
    /\ lastDenied' = [t \in DOMAIN todo |-> FALSE]
    /\ iterations' = [t \in DOMAIN todo |-> 0]
    /\ counted_as' = [t \in DOMAIN todo |-> "-"]
    /\ bytes_added' = [t \in DOMAIN todo |-> 0]

\* download_repo from the listing to the submission of the tasks: an empty
\* listing returns False, an empty task list returns True, otherwise one
\* task per entry of the filtered listing is submitted, in its order.
BuildTaskList ==
    LET todo == FilterFiles(files_info, include_patterns, exclude_patterns) IN
    /\ opc = "list"
    /\ files_to_download' = todo
    /\ Submitted(todo)
    /\ opc' = IF todo = << >> THEN "returned" ELSE "collect"
    /\ retval' = (files_info # << >> /\ todo = << >>)
    /\ UNCHANGED <<files_info, include_patterns, exclude_patterns, downloader_type,
                   max_workers, max_attempts, resolved_commit_hash, interrupted,
                   fsVars, collected, successful_downloads, failed_downloads,
                   lfs_downloads, hf_downloads, verified_without_downloads,
                   total_bytes_downloaded, exit_code, early_interrupt,
                   queued_at_flag, run>>

\* Sequences over S of length at most n.
SeqUpTo(S, n) == UNION {[1..k -> S] : k \in 0..n}

\* download_repo is called with a listing and filters; no task exists yet.
InitFilter ==
    /\ files_info \in SeqUpTo({FileInfo(fn, fn # "b", TRUE) : fn \in FilterNames},
                               MaxListing)
    /\ include_patterns \in SeqUpTo(FilterPatterns, MaxPatterns)
    /\ exclude_patterns \in SeqUpTo(FilterPatterns, MaxPatterns)
    /\ files_to_download = << >>
    /\ max_attempts = DefaultMaxAttempts
    /\ downloader_type = "requests"
    /\ max_workers = 1
    /\ resolved_commit_hash = "c1"
    /\ run = 1
    /\ interrupted = FALSE
    /\ final = [p \in Paths |-> Absent]
    /\ incomplete = [p \in Paths |-> Absent]
    /\ control = [p \in Paths |-> FALSE]
    /\ metadata = [p \in Paths |-> NoMeta]
    /\ pc = << >>
    /\ attempt = << >>
    /\ url_type = << >>
    /\ download_success = << >>
    /\ performed_download = << >>
    /\ result = << >>
    /\ fetches = << >>
    /\ lateFetches = << >>
    /\ lastVerify = << >>
    /\ lastOutcome = << >>
    /\ lastSource = << >>
    /\ onlyTransient = << >>
    /\ switches = << >>
    /\ slept = << >>
    /\ lastDenied = << >>
    /\ iterations = << >>
    /\ opc = "list"
    /\ collected = {}
    /\ successful_downloads = 0
    /\ failed_downloads = 0
    /\ lfs_downloads = 0
    /\ hf_downloads = 0
    /\ verified_without_downloads = 0
    /\ total_bytes_downloaded = 0
    /\ counted_as = [t \in Tasks |-> "-"]
    /\ bytes_added = [t \in Tasks |-> 0]
    /\ retval = FALSE
    /\ exit_code = 0
    /\ early_interrupt = FALSE
    /\ queued_at_flag = {}

NextFilter == BuildTaskList

SpecFilter == InitFilter /\ [][NextFilter]_vars

\* One call of verify_file_integrity from the loop, on every input: an
\* entry that is LFS or regular, with or without a size, or with neither an
\* LFS record nor a blob id; a file that is absent or of any content; no
\* record or any record; after a download of the task or not; with or
\* without a resolved commit hash.
FileInfoNoEtag(fn) == [filename |-> fn, size |-> {StatSize("full")},
                       lfs |-> None, blob_id |-> None]
StoredRecords ==
    {NoMeta} \cup
    [commit_hash : {"c1", "c0", "None"},
     etag : {sha_fileobj(c) : c \in Content} \cup {git_hash(c) : c \in Content}]
InitVerify ==
    /\ files_to_download \in
          {Manifest(<<FileNames[1]>>, <<l>>, <<z>>) : l, z \in BOOLEAN}
          \cup {<<FileInfoNoEtag(FileNames[1])>>}
    /\ files_info = files_to_download
    /\ include_patterns = << >>
    /\ exclude_patterns = << >>
    /\ max_attempts = DefaultMaxAttempts
    /\ downloader_type = "requests"
    /\ max_workers = 1
    /\ resolved_commit_hash \in {"c1", None}
    /\ run = 1
    /\ interrupted = FALSE
    /\ \E c \in Content \cup {Absent}, m \in StoredRecords :
          /\ final = [p \in Paths |-> IF p = FileNames[1] THEN c ELSE Absent]
          /\ metadata = [p \in Paths |-> IF p = FileNames[1] THEN m ELSE NoMeta]
    /\ incomplete = [p \in Paths |-> Absent]
    /\ control = [p \in Paths |-> FALSE]
    /\ pc = [t \in Tasks |-> "verify"]
    /\ attempt \in [Tasks -> {0, 1}]
    /\ iterations = [t \in Tasks |-> attempt[t] + 1]
    /\ performed_download = [t \in Tasks |-> attempt[t] > 0]
    /\ url_type = [t \in Tasks |->
                     IF is_lfs_file(files_to_download[t]) THEN "LFS" ELSE "HF"]
    /\ download_success = performed_download
    /\ result = [t \in Tasks |-> NoResult]
    /\ fetches = attempt
    /\ lateFetches = [t \in Tasks |-> 0]
    /\ lastVerify = [t \in Tasks |-> "none"]
    /\ lastOutcome = [t \in Tasks |-> IF attempt[t] > 0 THEN "ok" ELSE "none"]
    /\ lastSource = [t \in Tasks |-> IF attempt[t] > 0 THEN url_type[t] ELSE "-"]
    /\ onlyTransient = [t \in Tasks |-> attempt[t] = 0]
    /\ switches = [t \in Tasks |-> 0]
    /\ slept = [t \in Tasks |-> FALSE]
    /\ lastDenied = [t \in Tasks |-> FALSE]
    /\ opc = "collect"
    /\ collected = {}
    /\ successful_downloads = 0
    /\ failed_downloads = 0
    /\ lfs_downloads = 0
    /\ hf_downloads = 0
    /\ verified_without_downloads = 0
    /\ total_bytes_downloaded = 0
    /\ counted_as = [t \in Tasks |-> "-"]
    /\ bytes_added = [t \in Tasks |-> 0]
    /\ retval = FALSE
    /\ exit_code = 0
    /\ early_interrupt = FALSE
    /\ queued_at_flag = {}

NextVerify == \E t \in Tasks : Verify(t)

SpecVerify == InitVerify /\ [][NextVerify]_vars

(***************************************************************************)
(* Properties.                                                             *)
(***************************************************************************)
\* C1: in every reachable state the number of Backend fetches a task has
\* started, on the LFS and the HF source together, is at most max_attempts.
C1_FetchesWithinBudget ==
    \A t \in Tasks : fetches[t] <= max_attempts

\* A task that used its whole budget, part of it before and part of it
\* after a switch of the source.
C1_Witness ==
    \E t \in Tasks : /\ fetches[t] = max_attempts
                     /\ max_attempts = DefaultMaxAttempts
                     /\ switches[t] = 1
                     /\ download_success[t]

\* C2 as stated: a task whose fetches (at least one) all failed without a
\* status code and which returned a failure result has made exactly
\* max_attempts fetches.
C2_AsStated ==
    \A t \in Tasks :
        (pc[t] = "done" /\ ~result[t].success /\ onlyTransient[t] /\ fetches[t] >= 1)
            => fetches[t] = max_attempts

\* C2, amended: in a run in which the flag `interrupted` is not set, a task
\* whose fetches all failed without a status code and which returned a
\* failure result has made exactly max_attempts fetches.
C2_TransientFailsAfterExactlyBudget ==
    \A t \in Tasks :
        (pc[t] = "done" /\ ~result[t].success /\ onlyTransient[t] /\ ~interrupted)
            => fetches[t] = max_attempts

\* A task that failed max_attempts = 5 times and gave up, the flag not set.
C2_Witness ==
    \E t \in Tasks : /\ pc[t] = "done" /\ ~result[t].success
                     /\ onlyTransient[t] /\ ~interrupted
                     /\ max_attempts = DefaultMaxAttempts
                     /\ fetches[t] = DefaultMaxAttempts

\* C3: a fetch in flight was started directly after a verification of the
\* task that failed, and a task that returned success did so directly after
\* a verification that returned true, with no fetch in between.
C3_VerifyBeforeFetchAndBeforeComplete ==
    \A t \in Tasks :
        /\ pc[t] = "fetching" => lastVerify[t] = "fail"
        /\ (pc[t] = "done" /\ result[t].success) => lastVerify[t] = "ok"

\* A task that returned success after a fetch.
C3_Witness ==
    \E t \in Tasks : pc[t] = "done" /\ result[t].success /\ fetches[t] >= 1
                     /\ lastOutcome[t] = "ok"

\* C4: an LFS fetch that returns status 401, 403 or 404 switches the task
\* to HF; a task switches at most once and stays on HF; until its first HF
\* fetch has returned, the final file, the ".incomplete" sidecar and the
\* ".aria2" control file of its path are absent; the attempt counter still
\* counts the fetches of both sources.
C4_FailoverOnceAndClean ==
    \A t \in Tasks :
        /\ switches[t] <= 1
        /\ (lastSource[t] = "LFS" /\ lastOutcome[t] = "perm") => switches[t] = 1
        /\ switches[t] = 1 => (url_type[t] = "HF" /\ attempt[t] = fetches[t])
        /\ (switches[t] = 1 /\ lastSource[t] = "LFS")
              => /\ final[LocalPath(t)] = Absent
                 /\ incomplete[LocalPath(t)] = Absent
                 /\ ~control[LocalPath(t)]

\* The first HF fetch of a task that switched is in flight, and the path
\* had a sidecar or a final file before.
C4_Witness ==
    \E t \in Tasks : /\ switches[t] = 1 /\ lastSource[t] = "LFS"
                     /\ pc[t] = "fetching" /\ url_type[t] = "HF"
                     /\ attempt[t] >= 3

\* C5: after an HF fetch that failed with status 401, 403 or 404 the task
\* has returned failure, without a backoff and without another fetch.
C5_FallbackDeniedIsFinal ==
    \A t \in Tasks :
        (lastSource[t] = "HF" /\ lastOutcome[t] = "perm")
            => /\ pc[t] = "done"
               /\ ~result[t].success
               /\ ~slept[t]

\* Such a task with attempts left.
C5_Witness ==
    \E t \in Tasks : /\ lastSource[t] = "HF" /\ lastOutcome[t] = "perm"
                     /\ pc[t] = "done" /\ attempt[t] < max_attempts

\* C6: no task starts a Backend fetch after the flag `interrupted` is set.
C6_NoFetchAfterInterrupt ==
    \A t \in Tasks : lateFetches[t] = 0

\* C7: download_repo returns True only if every task returned success.
C7_TrueOnlyIfAllComplete ==
    (opc = "returned" /\ retval) => AllComplete

\* C8: at most max_workers tasks are inside a Backend fetch.
C8_FetchingWithinPool ==
    Cardinality({t \in Tasks : pc[t] = "fetching"}) <= max_workers

\* Pool size 1 and two tasks: one task fetches while the other is queued.
C8_Witness ==
    /\ max_workers = 1
    /\ \E t, u \in Tasks : pc[t] = "fetching" /\ pc[u] = "queued"

\* C9: for every manifest the job is given, at most one controller operates
\* on a path at a time, and so at most one fetch is in flight for it.
C9_OneControllerPerPath ==
    \A t, u \in Tasks :
        (t # u /\ LocalPath(t) = LocalPath(u)) => ~(t \in Running /\ u \in Running)

\* C10: in a second run over the tree and the records of a first run in
\* which every task was Complete, no task starts a fetch: a task that
\* returns without having seen the flag returns success, not downloaded.
C10_SecondRunFetchesNothing ==
    run = 2 =>
        \A t \in Tasks :
            /\ fetches[t] = 0
            /\ pc[t] \notin {"attempt", "fetching"}
            /\ pc[t] = "done" =>
                  \/ result[t].success /\ ~result[t].downloaded
                  \/ interrupted

\* A task of the second run that is Complete on its first verification.
C10_Witness ==
    /\ run = 2
    /\ \E t \in Tasks : pc[t] = "done" /\ result[t].success
                        /\ final[LocalPath(t)] = "full"
                        /\ metadata[LocalPath(t)].commit_hash = resolved_commit_hash

\* C11: for an entry whose size is known, a verification of a local file
\* of another size returned false, whatever the stored record, the manifest
\* fingerprint, the commit hashes and the force flag were.
C11_SizeMismatchFails ==
    \A t \in Tasks :
        LET p == LocalPath(t)
            file_info == files_to_download[t]
        IN  (/\ lastVerify[t] # "none"
             /\ final[p] # Absent
             /\ file_info.size # {}
             /\ StatSize(final[p]) \notin file_info.size)
                => lastVerify[t] = "fail"

\* A verification forced after a download, of a file of the wrong size whose
\* stored record carries the expected fingerprint and the resolved commit.
C11_Witness ==
    \E t \in Tasks :
        LET p == LocalPath(t)
            file_info == files_to_download[t]
        IN  /\ lastVerify[t] = "fail"
            /\ performed_download[t]
            /\ final[p] = "part"
            /\ file_info.size # {}
            /\ metadata[p] # NoMeta
            /\ metadata[p].etag = extract_expected_etag(file_info)
            /\ metadata[p].commit_hash = resolved_commit_hash

\* C12: a verification returned true if and only if the file exists, its
\* size is the manifest size when that is known, a record of the path
\* exists after the refresh, the stored fingerprint is the manifest
\* fingerprint when that is known, and the stored commit hash is the
\* resolved commit hash when one is resolved.
C12_VerifyTrueIff ==
    \A t \in Tasks :
        LET p == LocalPath(t)
            file_info == files_to_download[t]
            expected_etag == extract_expected_etag(file_info)
        IN  lastVerify[t] # "none" =>
              (lastVerify[t] = "ok" <=>
                 /\ final[p] # Absent
                 /\ file_info.size # {} => StatSize(final[p]) \in file_info.size
                 /\ metadata[p] # NoMeta
                 /\ expected_etag # None => metadata[p].etag = expected_etag
                 /\ resolved_commit_hash # None
                       => metadata[p].commit_hash = resolved_commit_hash)

\* A verification that returned false only because the record is of
\* another commit.
C12_Witness ==
    \E t \in Tasks :
        LET p == LocalPath(t)
            file_info == files_to_download[t]
        IN  /\ lastVerify[t] = "fail"
            /\ final[p] = "full"
            /\ metadata[p] # NoMeta
            /\ metadata[p].etag = extract_expected_etag(file_info)
            /\ resolved_commit_hash = "c1"
            /\ metadata[p].commit_hash = "c0"

\* The entry at index i of the listing passes the filters.
PassesFilters(i) ==
    LET fn == files_info[i].filename IN
    /\ \/ include_patterns = << >>
       \/ \E k \in DOMAIN include_patterns : PyIn(include_patterns[k], fn)
    /\ ~\E k \in DOMAIN exclude_patterns : PyIn(exclude_patterns[k], fn)

\* C13: once the task list is built, it has one task per entry of the
\* listing that passes the filters, and the tasks are in the order of the
\* listing: the entry at index i, when it passes, is the task whose number
\* is the count of passing entries up to i.
C13_OneTaskPerKeptEntryInOrder ==
    opc # "list" =>
        /\ Len(files_to_download) =
              Cardinality({i \in DOMAIN files_info : PassesFilters(i)})
        /\ \A i \in DOMAIN files_info :
              PassesFilters(i) =>
                 files_to_download[Cardinality({j \in 1..i : PassesFilters(j)})]
                    = files_info[i]
        /\ DOMAIN pc = DOMAIN files_to_download

\* A listing of two entries of which the include filter (two patterns, one
\* of them matching) keeps both and the exclude filter drops the first.
C13_Witness ==
    /\ opc = "collect"
    /\ Len(files_info) = 2
    /\ Len(files_to_download) = 1
    /\ files_to_download[1] = files_info[2]
    /\ Len(include_patterns) = 2
    /\ \E k \in DOMAIN include_patterns : ~PyIn(include_patterns[k], files_info[2].filename)
    /\ exclude_patterns # << >>
    /\ \A i \in DOMAIN files_info :
          \E k \in DOMAIN include_patterns : PyIn(include_patterns[k], files_info[i].filename)

\* C14: a collected task added bytes only if it made a fetch; a task that
\* returned success without a fetch (Complete on its first verification)
\* added no bytes and was counted in verified_without_downloads, in neither
\* lfs_downloads nor hf_downloads.
C14_BytesOnlyAfterFetch ==
    /\ \A t \in Tasks :
          /\ bytes_added[t] > 0 => fetches[t] >= 1
          /\ (t \in collected /\ result[t].success /\ fetches[t] = 0)
                => bytes_added[t] = 0 /\ counted_as[t] = "verified"
    /\ verified_without_downloads =
          Cardinality({t \in Tasks : counted_as[t] = "verified"})
    /\ lfs_downloads = Cardinality({t \in Tasks : counted_as[t] = "lfs"})
    /\ hf_downloads = Cardinality({t \in Tasks : counted_as[t] = "hf"})

\* A first run whose task was Complete on its first verification and was
\* counted.
C14_Witness ==
    /\ run = 1
    /\ \E t \in Tasks : /\ t \in collected /\ result[t].success
                        /\ fetches[t] = 0
                        /\ verified_without_downloads = 1
                        /\ total_bytes_downloaded = 0
                        /\ is_lfs_file(files_to_download[t])

\* C15: an LFS task whose first fetch (on LFS) was answered 401, 403 or
\* 404, whose second fetch (on HF) succeeded and whose verification after
\* it returned true has returned success with downloaded set and url_type
\* "HF", and once collected it is counted in hf_downloads, not in
\* lfs_downloads.
C15_FailoverCountedAsHF ==
    \A t \in Tasks :
        (/\ is_lfs_file(files_to_download[t])
         /\ switches[t] = 1 /\ fetches[t] = 2
         /\ lastSource[t] = "HF" /\ lastOutcome[t] = "ok"
         /\ lastVerify[t] = "ok")
            => /\ pc[t] = "done"
               /\ result[t] = [success |-> TRUE, downloaded |-> TRUE, url_type |-> "HF"]
               /\ t \in collected =>
                     /\ counted_as[t] = "hf"
                     /\ hf_downloads = 1 /\ lfs_downloads = 0

\* Such a task, collected, the job returned.
C15_Witness ==
    /\ opc = "returned"
    /\ hf_downloads = 1
    /\ \E t \in Tasks : /\ is_lfs_file(files_to_download[t])
                        /\ switches[t] = 1 /\ fetches[t] = 2
                        /\ lastVerify[t] = "ok" /\ t \in collected
                        /\ max_attempts = MaxAttempts

\* C16 as stated: main returns 130 if and only if the flag was set while a
\* task was unfinished; otherwise it returns 0 iff download_repo returned
\* True and 1 iff it returned False.
C16_ExitStatusAsStated ==
    opc = "exited" =>
        /\ (exit_code = 130) <=> early_interrupt
        /\ ~early_interrupt => ((exit_code = 0) <=> retval)
        /\ ~early_interrupt => ((exit_code = 1) <=> ~retval)

\* C16, amended: main returns 130 if and only if the flag is set when it
\* reads it after download_repo has returned; otherwise it returns 0 iff
\* download_repo returned True and 1 iff it returned False.
C16_ExitStatus ==
    opc = "exited" =>
        /\ (exit_code = 130) <=> interrupted
        /\ ~interrupted => ((exit_code = 0) <=> retval)
        /\ ~interrupted => ((exit_code = 1) <=> ~retval)

\* The three outcomes: an interrupted job whose download_repo returned
\* True exits with 130.
C16_Witness ==
    /\ opc = "exited" /\ exit_code = 130 /\ retval /\ early_interrupt
    /\ \E t \in Tasks : pc[t] = "cancelled"

\* The task returned because it saw the flag: at the top of its loop (a
\* failure dict without `downloaded`, returned with no verification since
\* the last fetch), or after a Backend result with message "interrupted".
EndedOnFlag(t) ==
    /\ pc[t] = "done"
    /\ ~result[t].success
    /\ \/ lastOutcome[t] = "interrupted"
       \/ ~result[t].downloaded /\ lastVerify[t] = "none"

\* C17: a task that returned because it saw the flag is not counted in
\* failed_downloads: the result loop never handles its result.
C17_CancelledNeverCountedFailed ==
    \A t \in Tasks :
        EndedOnFlag(t) => t \notin collected /\ counted_as[t] # "failed"

\* download_repo has returned; one task was stopped inside its Backend
\* fetch and the other at the top of its loop.
C17_Witness ==
    /\ opc = "returned"
    /\ \E t, u \in Tasks :
          /\ EndedOnFlag(t) /\ lastOutcome[t] = "interrupted"
          /\ EndedOnFlag(u) /\ lastOutcome[u] # "interrupted"

\* C18: when download_repo has returned, every task that did not return
\* success was reported by the result loop.  The loop reports a task in one
\* way only, by counting it in failed_downloads; it has no report of a
\* cancelled task.
C18_EveryNonCompleteReported ==
    opc \in {"returned", "exited"} =>
        \A t \in Tasks :
            \/ pc[t] = "done" /\ result[t].success
            \/ counted_as[t] = "failed"

\* C19: once a Backend fetch of a task has returned with message
\* "interrupted", the task is at the top of its loop or has returned a
\* non-success result, and no later step of the run starts a fetch of the
\* task, verifies it, or changes the final file, the ".incomplete" sidecar
\* or the ".aria2" control file of its path.
C19_NothingAfterInterruptedFetch ==
    /\ [](\A t \in Tasks :
            lastOutcome[t] = "interrupted" =>
               /\ pc[t] \in {"top", "done"}
               /\ pc[t] = "done" => ~result[t].success
               /\ lastVerify[t] = "none")
    /\ [][\A t \in Tasks :
            (lastOutcome[t] = "interrupted" /\ run' = run) =>
               /\ fetches'[t] = fetches[t]
               /\ lastOutcome'[t] = "interrupted"
               /\ final'[LocalPath(t)] = final[LocalPath(t)]
               /\ incomplete'[LocalPath(t)] = incomplete[LocalPath(t)]
               /\ control'[LocalPath(t)] = control[LocalPath(t)]]_vars

\* A task with attempts left that was stopped inside its fetch has
\* returned, and the partial sidecar or the control file is still there.
C19_Witness ==
    \E t \in Tasks :
        /\ lastOutcome[t] = "interrupted" /\ pc[t] = "done"
        /\ attempt[t] < max_attempts
        /\ \/ incomplete[LocalPath(t)] = "part"
           \/ control[LocalPath(t)] /\ final[LocalPath(t)] = "part"

\* C20: with either backend, an LFS fetch that the server answered with
\* 401, 403 or 404 returned a result that carries that status, and the task
\* switched to HF.
C20_DeniedFetchCarriesStatus ==
    \A t \in Tasks :
        (lastDenied[t] /\ lastSource[t] = "LFS")
            => lastOutcome[t] = "perm" /\ switches[t] = 1

\* C21: a fetch the controller makes through RequestsDownloader changes
\* the final path only by moving a completely transferred sidecar onto it
\* (the sidecar is gone afterwards); a fetch that fails or is interrupted
\* leaves the final path as it was, and no partial file appears there.
\* (The deletion of the final path at a switch to HF is the controller's.)
C21_FinalOnlyByMove ==
    [][\A t \in Tasks :
          LET p == LocalPath(t) IN
          (downloader_type = "requests" /\ pc[t] = "fetching"
             /\ url_type[t] = "LFS" /\ pc'[t] # "fetching")
          => /\ (final'[p] # final[p] /\ url_type'[t] = "LFS")
                  => /\ lastOutcome'[t] = "ok"
                     /\ incomplete'[p] = Absent
                     /\ final'[p] \in Transferred \cup ({incomplete[p]} \ {"part"})
             /\ lastOutcome'[t] \in {"transient", "interrupted", "raised"}
                  => final'[p] = final[p]
             /\ final'[p] = "part" => final[p] = "part"]_vars

\* An interrupted fetch wrote a part into the sidecar while the older file
\* at the final path stayed as it was.
C21_Witness ==
    \E t \in Tasks :
        /\ downloader_type = "requests"
        /\ lastOutcome[t] = "interrupted"
        /\ incomplete[LocalPath(t)] = "part"
        /\ final[LocalPath(t)] = "junk"

\* C22: when a verification of a task has failed, no file is at the final
\* path when the task's next fetch starts (the controller has deleted it).
C22_FailedArtifactDeletedBeforeFetch ==
    \A t \in Tasks :
        (pc[t] = "fetching" /\ lastVerify[t] = "fail")
            => final[LocalPath(t)] = Absent

\* C23: when a fetch of a task starts after a fetch of the task that
\* failed without a permanent status and without being interrupted, the
\* task has slept in between and fetches from the same source.
C23_BackoffBeforeEveryRetry ==
    \A t \in Tasks :
        (pc[t] = "fetching" /\ lastOutcome[t] = "transient")
            => slept[t] /\ url_type[t] = lastSource[t]

\* C24: a task, LFS or not, whose fetch on the source it tried first was
\* answered 401, 403 or 404 while attempts were left does not end there
\* (unless the job is interrupted): it goes on to fetch from the other
\* source.
C24_FailoverFromEitherSource ==
    \A t \in Tasks :
        (pc[t] = "done" /\ ~interrupted /\ lastOutcome[t] = "perm"
            /\ attempt[t] < max_attempts)
        => lastSource[t] # (IF is_lfs_file(files_to_download[t]) THEN "LFS" ELSE "HF")

\* A verification of task t that refreshes the record of its path: the
\* file is there, its size is not rejected, and the refresh is forced or
\* no record is stored.
Refreshes(t) ==
    LET p == LocalPath(t)
        file_info == files_to_download[t]
    IN  /\ pc[t] = "verify"
        /\ final[p] # Absent
        /\ file_info.size # {} => StatSize(final[p]) \in file_info.size
        /\ performed_download[t] \/ metadata[p] = NoMeta

\* C25 as stated: the record a refresh stores for an LFS entry holds the
\* fingerprint of the manifest, whatever the file contains.
C25_AsStated ==
    [][\A t \in Tasks :
          (Refreshes(t) /\ pc'[t] # "verify" /\ is_lfs_file(files_to_download[t]))
             => metadata'[LocalPath(t)].etag = files_to_download[t].lfs]_vars

\* C25: the record a refresh stores holds a hash of the content of the file:
\* its SHA-256 for an LFS entry, its git blob hash for a regular entry; it
\* holds the resolved commit hash.
C25_RefreshHashesContent ==
    [][\A t \in Tasks :
          LET p == LocalPath(t) IN
          (Refreshes(t) /\ pc'[t] # "verify")
             => /\ metadata'[p].etag =
                      (IF is_lfs_file(files_to_download[t])
                       THEN sha_fileobj(final[p]) ELSE git_hash(final[p]))
                /\ metadata'[p].commit_hash = PyStr(resolved_commit_hash)]_vars

\* The forced refresh for an LFS entry whose file has the manifest size
\* and other bytes stored the hash of these bytes, and the verification
\* returned false.
C25_Witness ==
    \E t \in Tasks :
        LET p == LocalPath(t)
            file_info == files_to_download[t]
        IN  /\ is_lfs_file(file_info)
            /\ performed_download[t]
            /\ lastVerify[t] = "fail"
            /\ final[p] = "junk"
            /\ metadata[p] # NoMeta
            /\ metadata[p].etag = sha_fileobj("junk")
            /\ metadata[p].etag # file_info.lfs

\* C26: a task that was queued when the flag was set has run no
\* verification, has written no record and has started no fetch; it is
\* still queued, cancelled, or was started and returned without success.
C26_QueuedTaskAbandoned ==
    /\ [](\A t \in queued_at_flag :
             /\ fetches[t] = 0
             /\ lastVerify[t] = "none"
             /\ pc[t] \in {"queued", "cancelled", "top", "done"}
             /\ pc[t] = "done" => ~result[t].success)
    /\ [][\A t \in queued_at_flag :
             run' = run => metadata'[LocalPath(t)] = metadata[LocalPath(t)]]_vars

\* A worker picked up a task that was queued when the flag was set, before
\* the orchestrator cancelled the futures, and the task has returned.
C26_Witness ==
    \E t \in queued_at_flag : pc[t] = "done" /\ opc = "collect"

\* C27: no task is ever stopped from outside (only a task that has not
\* started becomes cancelled), and once download_repo has returned every
\* task that had started has returned: none is verifying or fetching.
C27_ReturnsAfterRunningTasks ==
    /\ [](opc \in {"returned", "exited"}
            => \A t \in Tasks : pc[t] \in {"done", "cancelled"})
    /\ [][\A t \in Tasks :
             /\ pc'[t] = "cancelled" => pc[t] \in {"queued", "cancelled"}
             /\ (pc[t] \in {"top", "verify", "attempt", "fetching"} /\ pc'[t] # pc[t])
                   => pc'[t] \in {"top", "verify", "attempt", "fetching", "done"}]_vars

\* download_repo has returned from a run in which the flag was set while a
\* task was inside a fetch; the task saw the flag there and returned.
C27_Witness ==
    /\ opc = "returned" /\ interrupted
    /\ \E t \in Tasks \ queued_at_flag :
          pc[t] = "done" /\ lastOutcome[t] = "interrupted"

\* C28: a task that raised a filesystem error is counted as failed, once:
\* when the result loop handles its future, failed_downloads goes up by
\* one, no other counter changes and the loop goes on; every handled task
\* that is counted as failed is counted so once; and when download_repo
\* returns from a run in which the flag was not set, every task has
\* returned and has been handled, and every task that did not return
\* success is counted as failed.
C28_ErrorCountsOnceAndJobGoesOn ==
    /\ [](/\ \A t \in collected :
                result[t] = FutureException => counted_as[t] = "failed"
          /\ failed_downloads =
                Cardinality({t \in collected : counted_as[t] = "failed"}))
    /\ []((opc = "returned" /\ ~interrupted)
            => /\ collected = Tasks
               /\ \A t \in Tasks : pc[t] = "done"
               /\ \A t \in Tasks : ~result[t].success => counted_as[t] = "failed"
               /\ \A t \in Tasks : counted_as[t] = "failed"
                                       => ~result[t].success \/ result[t].downloaded)
    /\ [][\A t \in Tasks :
             (result[t] = FutureException /\ t \notin collected /\ t \in collected')
             => /\ failed_downloads' = failed_downloads + 1
                /\ successful_downloads' = successful_downloads
                /\ lfs_downloads' = lfs_downloads
                /\ hf_downloads' = hf_downloads
                /\ verified_without_downloads' = verified_without_downloads
                /\ total_bytes_downloaded' = total_bytes_downloaded
                /\ opc' = IF collected' = Tasks THEN "shutdown" ELSE "collect"
                /\ pc' = pc]_vars

\* download_repo has returned: one task raised in its verification and is
\* the only failure counted, the other task was downloaded and counted.
C28_Witness ==
    /\ opc = "returned" /\ ~interrupted
    /\ failed_downloads = 1 /\ successful_downloads = 1
    /\ \E t \in Tasks :
          /\ result[t] = FutureException
          /\ \E u \in Tasks \ {t} : result[u].success /\ result[u].downloaded

\* How a call of download_and_verify_file that has returned ended: at
\* the return after a verification that passed; at the flag check; at the
\* budget check, the denied HF fetch or the last failed attempt.
EndedInSuccess(t) == result[t].success /\ lastVerify[t] = "ok"
EndedCancelled(t) ==
    /\ ~result[t].success /\ ~result[t].downloaded
    /\ interrupted /\ lastVerify[t] = "none"
EndedInFailure(t) ==
    /\ ~result[t].success
    /\ \/ ~result[t].downloaded /\ lastVerify[t] = "fail"
       \/ result[t].downloaded /\ lastVerify[t] = "none"
             /\ lastOutcome[t] \notin {"none", "ok"}

\* C29: a started call of download_and_verify_file returns, given that
\* its verifications and fetches return; it begins at most max_attempts + 1
\* iterations of its loop, and it has ended in exactly one of success,
\* cancelled and failure.
C29_ControllerTerminates ==
    /\ [](\A t \in Tasks :
             /\ iterations[t] <= max_attempts + 1
             /\ pc[t] = "done" =>
                   /\ result[t].url_type \in {"LFS", "HF"}
                   /\ Cardinality({k \in 1..3 :
                          \/ k = 1 /\ EndedInSuccess(t)
                          \/ k = 2 /\ EndedCancelled(t)
                          \/ k = 3 /\ EndedInFailure(t)}) = 1)
    /\ ((\E t \in Tasks : pc[t] \in {"top", "verify", "attempt", "fetching"})
          ~> (\A t \in Tasks : pc[t] = "done"))

\* A call that used its whole budget of five fetches and returned failure
\* from its sixth iteration.
C29_Witness ==
    \E t \in Tasks :
        /\ pc[t] = "done" /\ ~result[t].success
        /\ max_attempts = DefaultMaxAttempts
        /\ fetches[t] = max_attempts
        /\ iterations[t] = max_attempts + 1
        /\ lastVerify[t] = "fail"

\* C30: a task that returned success with downloaded = true had a Backend
\* fetch that returned success.
C30_DownloadedOnlyAfterSuccessfulFetch ==
    \A t \in Tasks :
        (pc[t] = "done" /\ result[t].success /\ result[t].downloaded)
            => download_success[t]

\* C31: after every iteration of the result loop the successes are the sum
\* of the three kinds of success and no more results are counted than
\* there are tasks; when download_repo has returned from a run in which
\* the flag was not set, every task is counted exactly once.
C31_CounterSums ==
    /\ successful_downloads =
          verified_without_downloads + lfs_downloads + hf_downloads
    /\ successful_downloads + failed_downloads <= Cardinality(Tasks)
    /\ (opc = "returned" /\ ~interrupted)
          => successful_downloads + failed_downloads = Cardinality(Tasks)

=============================================================================
